---- MODULE Spec2Model ----
(***************************************************************************)
(* Ingestion-and-retrieval pipeline of chat_me: the chunkers, the          *)
(* in-memory document store (src/utils/vectorSearch.ts), the ingestion     *)
(* routes that feed it and the admin routes that delete from / clear it.   *)
(*                                                                         *)
(* Texts are sequences of one-character strings.  Similarities are exact   *)
(* rationals (see cosineSimilarity); a similarity that JavaScript computes *)
(* as 0/0 is the value NaN.                                                *)
(***************************************************************************)
EXTENDS Integers, Sequences, FiniteSets, TLC

(***************************************************************************)
(* Program constants                                                       *)
(***************************************************************************)
ChunkTextMaxLength == 1000
maxChunkSize == 1000
overlap == 200
MinChunkLength == 50
DefaultTopK == 3

(***************************************************************************)
(* Bounds of the model                                                     *)
(***************************************************************************)
MaxSegs == 3
MaxStore == 2
MaxTopK == 2
MaxIngest == 2

(***************************************************************************)
(* Strings                                                                 *)
(***************************************************************************)
Punct == {".", "!", "?"}
WhiteSpace == {" ", "\n"}

Rep(c, n) == [i \in 1..n |-> c]

\* String.prototype.trim: drop leading and trailing white space.
Trim(s) ==
  LET n == Len(s)
  IN  IF \A i \in 1..n : s[i] \in WhiteSpace
      THEN <<>>
      ELSE LET first == CHOOSE i \in 1..n :
                          /\ s[i] \notin WhiteSpace
                          /\ \A j \in 1..(i-1) : s[j] \in WhiteSpace
               back  == CHOOSE k \in 0..(n-1) :
                          /\ s[n-k] \notin WhiteSpace
                          /\ \A j \in 0..(k-1) : s[n-j] \in WhiteSpace
           IN  SubSeq(s, first, n - back)

\* The k-th smallest element (k >= 1) of a finite set of integers.
Nth(S, k) == CHOOSE e \in S : Cardinality({x \in S : x <= e}) = k

\* text.split(/[.!?]+/): the pieces between maximal runs of . ! ?, empty
\* pieces at the two ends included; "" splits into [""].
SplitSentences(text) ==
  LET n      == Len(text)
      starts == {i \in 1..n : text[i] \in Punct /\ (i = 1 \/ text[i-1] \notin Punct)}
      ends   == {i \in 1..n : text[i] \in Punct /\ (i = n \/ text[i+1] \notin Punct)}
      m      == Cardinality(ends)
  IN  [k \in 1..(m+1) |->
         LET from == IF k = 1 THEN 1 ELSE Nth(ends, k-1) + 1
             to   == IF k = m + 1 THEN n ELSE Nth(starts, k) - 1
         IN  SubSeq(text, from, to)]

\* A push that would also leave out the chunks of 50 characters or less.
PushTrimmed_minLength(chunks, cur) ==
  IF Len(Trim(cur)) > 50 THEN Append(chunks, Trim(cur)) ELSE chunks

\* chunks.push(currentChunk.trim()) guarded by if (currentChunk.trim()).
PushTrimmed(chunks, cur) ==
  IF Trim(cur) # <<>> THEN Append(chunks, Trim(cur)) ELSE chunks

(***************************************************************************)
(* chunkText (vectorSearch.ts)                                             *)
(***************************************************************************)
RECURSIVE chunkTextLoop(_, _, _, _, _)
chunkTextLoop(sentences, idx, chunks, currentChunk, maxLength) ==
  IF idx > Len(sentences)
  THEN PushTrimmed(chunks, currentChunk)
  ELSE LET sentence == sentences[idx]
       IN  IF Len(currentChunk) + Len(sentence) > maxLength
           THEN chunkTextLoop(sentences, idx + 1, PushTrimmed(chunks, currentChunk),
                              sentence, maxLength)
           ELSE chunkTextLoop(sentences, idx + 1, chunks,
                              currentChunk \o sentence \o <<".">>, maxLength)

chunkText(text, maxLength) ==
  chunkTextLoop(SplitSentences(text), 1, <<>>, <<>>, maxLength)

(***************************************************************************)
(* createSemanticChunks / getOverlapText (youtube-manual/route.ts)         *)
(***************************************************************************)
\* 1-based position of the last " " of s, 0 when there is none.
LastSpace(s) ==
  LET n == Len(s)
  IN  IF \A i \in 1..n : s[i] # " "
      THEN 0
      ELSE n - (CHOOSE k \in 0..(n-1) :
                  /\ s[n-k] = " "
                  /\ \A j \in 0..(k-1) : s[n-j] # " ")

getOverlapText(text, overlapSize) ==
  IF Len(text) <= overlapSize
  THEN text
  ELSE LET tail == SubSeq(text, Len(text) - overlapSize + 1, Len(text))
           lastSpaceIndex == LastSpace(tail) - 1
       IN  IF lastSpaceIndex > 0
           THEN SubSeq(tail, lastSpaceIndex + 2, Len(tail))
           ELSE tail

NonBlank(s) == Trim(s) # <<>>

\* text.split(/[.!?]+/).filter(s => s.trim().length > 0)
SemanticSentences(text) == SelectSeq(SplitSentences(text), NonBlank)

RECURSIVE semanticLoop(_, _, _, _)
semanticLoop(sentences, idx, chunks, currentChunk) ==
  IF idx > Len(sentences)
  THEN PushTrimmed(chunks, currentChunk)
  ELSE LET sentenceWithSpace ==
             IF currentChunk # <<>>
             THEN <<" ">> \o Trim(sentences[idx])
             ELSE Trim(sentences[idx])
       IN  IF Len(currentChunk) + Len(sentenceWithSpace) > maxChunkSize
              /\ currentChunk # <<>>
           THEN semanticLoop(sentences, idx + 1,
                             Append(chunks, Trim(currentChunk)),
                             getOverlapText(currentChunk, overlap) \o sentenceWithSpace)
           ELSE semanticLoop(sentences, idx + 1, chunks,
                             currentChunk \o sentenceWithSpace)

LongEnough(chunk) == Len(chunk) > MinChunkLength

createSemanticChunks(text) ==
  SelectSeq(semanticLoop(SemanticSentences(text), 1, <<>>, <<>>), LongEnough)

(***************************************************************************)
(* YouTubeTranscriptLoader.createSemanticChunks (utils/youtubeLoader.ts)   *)
(***************************************************************************)
RECURSIVE loaderLoop(_, _, _, _, _)
loaderLoop(transcript, idx, chunks, currentChunk, currentSize) ==
  IF idx > Len(transcript)
  THEN PushTrimmed(chunks, currentChunk)
  ELSE LET textWithSpace ==
             IF currentChunk # <<>>
             THEN <<" ">> \o transcript[idx]
             ELSE transcript[idx]
       IN  IF currentSize + Len(textWithSpace) > maxChunkSize /\ currentChunk # <<>>
           THEN LET seeded == getOverlapText(currentChunk, overlap) \o textWithSpace
                IN  loaderLoop(transcript, idx + 1,
                               Append(chunks, Trim(currentChunk)),
                               seeded, Len(seeded))
           ELSE loaderLoop(transcript, idx + 1, chunks,
                           currentChunk \o textWithSpace,
                           currentSize + Len(textWithSpace))

loaderCreateSemanticChunks(transcript) ==
  SelectSeq(loaderLoop(transcript, 1, <<>>, <<>>, 0), LongEnough)

(***************************************************************************)
(* Embeddings and cosine similarity (vectorSearch.ts)                      *)
(*                                                                         *)
(* createEmbedding is the external embedder: every call answers one of the *)
(* vectors of Vectors, or fails.  cosineSimilarity(a, b) is                *)
(* dot / (|a| * |b|); the model keeps it exact as the pair <<s, d>> with   *)
(* s = sign(dot) * dot^2 and d = |a|^2 * |b|^2: the signed square          *)
(* of the cosine, which orders pairs exactly as the cosine orders them.    *)
(* With a zero-magnitude vector JavaScript computes 0 / 0 = NaN.           *)
(***************************************************************************)
Vectors == { <<0, 0>>, <<1, 0>>, <<1, 1>> }

NaN == [nan |-> TRUE, s |-> 0, d |-> 0]

Dot(a, b) == a[1] * b[1] + a[2] * b[2]

cosineSimilarity(a, b) ==
  LET dotProduct == Dot(a, b)
      magnitudes == Dot(a, a) * Dot(b, b)
  IN  IF magnitudes = 0
      THEN NaN
      ELSE [nan |-> FALSE,
            s   |-> IF dotProduct < 0 THEN -(dotProduct * dotProduct)
                                      ELSE dotProduct * dotProduct,
            d   |-> magnitudes]

\* Comparator with the operands swapped: a.similarity - b.similarity.
Comparator_ascending(a, b) ==
  IF a.nan \/ b.nan
  THEN 0
  ELSE LET diff == a.s * b.d - b.s * a.d
       IN  IF diff < 0 THEN -1 ELSE IF diff > 0 THEN 1 ELSE 0

\* The comparator (a, b) => b.similarity - a.similarity as Array.prototype.sort
\* reads it: its sign, and +0 for a NaN difference.
Comparator(a, b) ==
  IF a.nan \/ b.nan
  THEN 0
  ELSE LET diff == b.s * a.d - a.s * b.d
       IN  IF diff < 0 THEN -1 ELSE IF diff > 0 THEN 1 ELSE 0

\* ECMAScript: the order is specified only for a consistent comparator.  Here
\* NaN compares equal to everything, so the comparator is inconsistent exactly
\* when a NaN meets two different numbers.
ConsistentComparator(sims) ==
  \/ \A i \in DOMAIN sims : ~sims[i].nan
  \/ \A i, j \in DOMAIN sims : Comparator(sims[i], sims[j]) = 0

Orders(n) ==
  { p \in [1..n -> 1..n] : \A i, j \in 1..n : i # j => p[i] # p[j] }

\* Array.prototype.sort is stable: position of element i among the sorted.
StableRank(sims, i) ==
  1 + Cardinality({ j \in DOMAIN sims :
                      \/ Comparator(sims[j], sims[i]) < 0
                      \/ Comparator(sims[j], sims[i]) = 0 /\ j < i })

\* The orders sort() can leave the scored records in: order[p] is the index
\* (in the store) of the record at position p.  An inconsistent comparator
\* leaves the order implementation-defined: any permutation.
SortOrders(sims) ==
  LET n == Len(sims)
  IN  IF ConsistentComparator(sims)
      THEN { [p \in 1..n |-> CHOOSE i \in 1..n : StableRank(sims, i) = p] }
      ELSE Orders(n)

Similarities(store, queryEmbedding) ==
  [i \in 1..Len(store) |-> cosineSimilarity(queryEmbedding, store[i].embedding)]

\* .slice(0, topK) for topK >= 0
Slice0(s, topK) == SubSeq(s, 1, IF topK < Len(s) THEN topK ELSE Len(s))

\* The results searchSimilarDocuments can return once the query embedding is
\* known: sort, slice, map to the documents.
SearchResults(store, queryEmbedding, topK) ==
  { Slice0([p \in 1..Len(store) |-> store[order[p]]], topK) :
      order \in SortOrders(Similarities(store, queryEmbedding)) }

(***************************************************************************)
(* Inputs of the requests                                                  *)
(***************************************************************************)
Requests == {"r1"}
VideoIds == {"vidA"}

Hi == <<"H", "i">>
OneSentence == Rep("s", 60)
TwoSentences == Rep("x", 600) \o <<".", " ">> \o Rep("y", 600)

\* Short documents, and documents long enough to be cut into two chunks.
ShortTexts == { <<>>, Hi, OneSentence }
LongTexts == { Hi, TwoSentences }
ShortTranscripts == { <<>>, <<Hi>>, <<OneSentence>> }
LongTranscripts == { <<>>, <<Hi>>, <<Rep("x", 600), Rep("y", 600)>> }

\* `PDF document: ${file.name}. Content extraction not implemented in this demo.`
\* and its sibling for the other types, for a file named "f".
PdfPlaceholder ==
  <<"P","D","F"," ","d","o","c","u","m","e","n","t",":"," ","f",".">>
  \o <<" ","C","o","n","t","e","n","t"," ","e","x","t","r","a","c","t","i","o","n">>
  \o <<" ","n","o","t"," ","i","m","p","l","e","m","e","n","t","e","d">>
  \o <<" ","i","n"," ","t","h","i","s"," ","d","e","m","o",".">>
DocPlaceholder ==
  <<"D","o","c","u","m","e","n","t",":"," ","f",".">>
  \o <<" ","C","o","n","t","e","n","t"," ","e","x","t","r","a","c","t","i","o","n">>
  \o <<" ","f","o","r"," ","t","h","i","s"," ","f","i","l","e"," ","t","y","p","e">>
  \o <<" ","n","o","t"," ","i","m","p","l","e","m","e","n","t","e","d">>
  \o <<" ","i","n"," ","t","h","i","s"," ","d","e","m","o",".">>
FileTypes == { "text/plain", "application/pdf", "application/msword", "image/png" }
allowedTypes == { "text/plain", "application/pdf", "application/msword" }

\* uuidv4(): the n-th request gets the n-th fresh identifier.
uuidv4(n) == <<"uuid1", "uuid2", "uuid3", "uuid4", "uuid5", "uuid6">>[n]

\* The ids an admin asks to delete: those in the store, and one that no
\* record has.
NoId == <<"none", 0>>
StoredIds(store) == { store[i].id : i \in 1..Len(store) }

(***************************************************************************)
(* State                                                                   *)
(*                                                                         *)
(* A response is part of the state only in the state its request ends in:  *)
(* the next step of the server finds the slot free again.                  *)
(***************************************************************************)
VARIABLES
  documentStore,  \* vectorSearch.ts: let documentStore: DocumentChunk[]
  req,            \* the ingestion requests in flight, by request slot
  started,        \* ingestion requests begun so far (the source of fresh uuids)
  search,         \* the searchSimilarDocuments call in flight, then its outcome
  adminResp,      \* the response of the admin request that just ended
  fnText,         \* the text handed to a chunker
  fnName,         \* which chunker was applied to it ("none" before)
  fnChunks,       \* what the chunker returned
  uploads         \* the audio files in the uploads directory, by video id

vars == <<documentStore, req, started, search, adminResp, fnText, fnName, fnChunks, uploads>>
storeVars == <<documentStore, req, started, search, adminResp, uploads>>
fnVars == <<fnText, fnName, fnChunks>>

Idle == [pc |-> "idle"]
NoSearch == [pc |-> "idle"]
NoResp == [op |-> "none"]

\* The requests once the responses of the finished ones have been sent.
Pending == [r \in DOMAIN req |-> IF req[r].pc = "done" THEN Idle ELSE req[r]]
PendingSearch == IF search.pc = "done" THEN NoSearch ELSE search

(***************************************************************************)
(* addDocument (vectorSearch.ts), one awaited embedding at a time          *)
(***************************************************************************)
\* The metadata the route passes to its i-th addDocument call (i from 1);
\* chunkIndex -1 stands for a metadata without chunkIndex.
Metadata(route, source, i) ==
  IF route = "upload"
  THEN [source |-> source, type |-> "document", chunkIndex |-> -1]
  ELSE IF route \in {"manual", "loader"}
  THEN [source |-> source, type |-> "youtube", chunkIndex |-> i - 1]
  ELSE [source |-> source, type |-> "youtube", chunkIndex |-> -1]

\* The first call at or after i whose chunkText gives a chunk to embed;
\* Len(calls) + 1 when the route's loop runs out.  (addDocument of a content
\* with no chunk returns without awaiting an embedding.)
RECURSIVE NextCall(_, _)
NextCall(calls, i) ==
  IF i > Len(calls) \/ chunkText(calls[i], ChunkTextMaxLength) # <<>>
  THEN i
  ELSE NextCall(calls, i + 1)

\* The success response of a route after its last addDocument call
\* (chunksProcessed -1: the upload response has no such field).
Success(route, source, calls) ==
  [status |-> 200, success |-> TRUE, source |-> source,
   chunksProcessed |-> IF route = "upload" THEN -1 ELSE Len(calls)]

\* The state of a request that is about to make its i-th addDocument call:
\* it runs on to the next awaited embedding, or to the response.
Proceed(route, source, calls, i) ==
  LET n == NextCall(calls, i)
  IN  IF n > Len(calls)
      THEN [pc |-> "done", route |-> route, resp |-> Success(route, source, calls)]
      ELSE [pc |-> "embedding", route |-> route, source |-> source,
            calls |-> calls, i |-> n,
            chunks |-> chunkText(calls[n], ChunkTextMaxLength), j |-> 1]

(***************************************************************************)
(* The video routes: what they store and how they go on after addDocument  *)
(***************************************************************************)
ChannelVideoIds == { "vidA", "vidB" }

\* `https://www.youtube.com/watch?v=${videoId}`, as a source and as text.
watchUrl(videoId) ==
  IF videoId = "vidA"
  THEN "https://www.youtube.com/watch?v=vidA"
  ELSE "https://www.youtube.com/watch?v=vidB"
IdText(videoId) ==
  IF videoId = "vidA" THEN <<"v", "i", "d", "A">> ELSE <<"v", "i", "d", "B">>
UrlText(videoId) ==
  <<"h", "t", "t", "p", "s", ":", "/", "/", "w", "w", "w", ".", "y">>
  \o <<"o", "u", "t", "u", "b", "e", ".", "c", "o", "m", "/", "w", "a">>
  \o <<"t", "c", "h", "?", "v", "=">>
  \o IdText(videoId)

\* source.includes(videoId), over the sources of the model: the video id
\* itself (caption routes), its URL (whisper routes), a file uuid (upload).
includes(source, videoId) == source \in { videoId, watchUrl(videoId) }

\* getDocumentStore().filter(doc => doc.metadata.source.includes(videoId))
existingDocs(store, videoId) ==
  SelectSeq(store, LAMBDA doc : includes(doc.metadata.source, videoId))

\* The details of a video as the routes print them: title "T", channel "Ch",
\* published 2024-01-01, duration PT1M5S, 1500 views, no like count, no
\* description.
VideoTitle == <<"T">>
ChannelTitle == <<"C", "h">>
Unknown == <<"U", "n", "k", "n", "o", "w", "n">>
NL == <<"\n">>
DetailLines ==
  <<"P", "u", "b", "l", "i", "s", "h", "e", "d", ":", " ", "1", "/">>
  \o <<"1", "/", "2", "0", "2", "4", "\n", "D", "u", "r", "a", "t", "i">>
  \o <<"o", "n", ":", " ", "1", ":", "0", "5", "\n", "V", "i", "e", "w">>
  \o <<"s", ":", " ", "1", ".", "5", "K", "\n", "L", "i", "k", "e", "s">>
  \o <<":", " ", "U", "n", "k", "n", "o", "w", "n", "\n">>
TitleLabel ==
  <<"V", "i", "d", "e", "o", " ", "T", "i", "t", "l", "e", ":", " ">>
ChannelLabel ==
  <<"C", "h", "a", "n", "n", "e", "l", ":", " ">>
UrlLabel ==
  <<"U", "R", "L", ":", " ">>
WhisperHeading ==
  <<"\n", "T", "r", "a", "n", "s", "c", "r", "i", "p", "t", " ", "(">>
  \o <<"v", "i", "a", " ", "W", "h", "i", "s", "p", "e", "r", " ", "A">>
  \o <<"I", ")", ":", "\n">>
TranscriptHeading ==
  <<"\n", "T", "r", "a", "n", "s", "c", "r", "i", "p", "t", ":", "\n">>
FallbackLabel ==
  <<"Y", "o", "u", "T", "u", "b", "e", " ", "V", "i", "d", "e", "o">>
  \o <<":", " ">>

\* youtube-whisper/route.ts: content
whisperContent(hasDetails, videoId, transcriptText) ==
  TitleLabel \o (IF hasDetails THEN VideoTitle ELSE Unknown) \o NL
  \o ChannelLabel \o (IF hasDetails THEN ChannelTitle ELSE Unknown) \o NL
  \o UrlLabel \o UrlText(videoId) \o NL
  \o (IF hasDetails THEN DetailLines ELSE <<>>)
  \o WhisperHeading \o transcriptText

\* channel route: content
channelContent(videoId, transcript) ==
  TitleLabel \o VideoTitle \o NL \o ChannelLabel \o ChannelTitle \o NL
  \o DetailLines \o WhisperHeading \o transcript

\* enhanced caption route: content
enhancedContent(hasDetails, videoId, transcript) ==
  IF hasDetails
  THEN TitleLabel \o VideoTitle \o NL \o ChannelLabel \o ChannelTitle \o NL
       \o DetailLines \o TranscriptHeading \o transcript
  ELSE FallbackLabel \o UrlText(videoId) \o NL \o TranscriptHeading \o transcript

\* transcript.map(item => item.text).join(' ')
RECURSIVE join(_)
join(items) ==
  IF items = <<>> THEN <<>>
  ELSE IF Len(items) = 1 THEN items[1]
  ELSE items[1] \o <<" ">> \o join(Tail(items))

\* The result a channel batch accumulates (chunks -1: an entry without chunks).
NewResult(totalVideosFound) ==
  [totalVideosFound |-> totalVideosFound, videosProcessed |-> 0,
   videosWithTranscripts |-> 0, videosFailed |-> 0, totalChunks |-> 0,
   processedVideos |-> <<>>]

\* Succeeded without the addition to totalChunks.
Succeeded_noTotal(result, videoId, chunks) ==
  [result EXCEPT
     !.processedVideos = Append(@, [videoId |-> videoId, status |-> "success",
                                    chunks |-> chunks]),
     !.videosProcessed = @ + 1,
     !.videosWithTranscripts = @ + 1]

Succeeded(result, videoId, chunks) ==
  [result EXCEPT
     !.processedVideos = Append(@, [videoId |-> videoId, status |-> "success",
                                    chunks |-> chunks]),
     !.videosProcessed = @ + 1,
     !.videosWithTranscripts = @ + 1,
     !.totalChunks = @ + chunks]

Failed(result, videoId, status) ==
  [result EXCEPT
     !.processedVideos = Append(@, [videoId |-> videoId, status |-> status,
                                    chunks |-> -1]),
     !.videosFailed = @ + 1]

\* A batch: the listed videos, the index v of the one at hand, the result so
\* far and, for the record, what was done about each video before v: "skipped",
\* "processed" or "failed", with the number of its records found in the store
\* (existing) and the number pushed for it by this batch (created).
NewBatch(videos, skipExisting) ==
  [videos |-> videos, v |-> 1, skipExisting |-> skipExisting,
   result |-> NewResult(Len(videos)), ledger |-> <<>>]
NoBatch == [NewBatch(<<>>, FALSE) EXCEPT !.v = 0]
Advance(batch, result, how, existing, created) ==
  [batch EXCEPT
     !.v = @ + 1,
     !.result = result,
     !.ledger = Append(@, [how |-> how, existing |-> existing, created |-> created])]

\* A request of a video route that awaits its download or its transcription.
VideoState(pc, route, videoId, hasDetails, batch) ==
  [pc |-> pc, route |-> route, videoId |-> videoId, hasDetails |-> hasDetails,
   batch |-> batch]

\* The for-loop of the channel route if it skipped on skipExisting alone,
\* without looking into the store.
RECURSIVE channelLoop_noLookup(_, _)
channelLoop_noLookup(batch, store) ==
  IF batch.v > Len(batch.videos)
  THEN [pc |-> "done", route |-> "channel", videos |-> batch.videos,
        skipExisting |-> batch.skipExisting, ledger |-> batch.ledger,
        resp |-> [status |-> 200, success |-> TRUE, result |-> batch.result]]
  ELSE LET videoId == batch.videos[batch.v]
           existing == existingDocs(store, videoId)
       IN  IF batch.skipExisting
           THEN channelLoop_noLookup(Advance(batch,
                                             Succeeded(batch.result, videoId, Len(existing)),
                                             "skipped", Len(existing), 0),
                                     store)
           ELSE VideoState("downloading", "channel", videoId, TRUE, batch)

\* The for-loop of the channel route from video batch.v on: already indexed
\* videos are skipped as successes, the first other one is downloaded, and
\* the response follows the last one (the finished request keeps the list
\* of videos it was about).
RECURSIVE channelLoop(_, _)
channelLoop(batch, store) ==
  IF batch.v > Len(batch.videos)
  THEN [pc |-> "done", route |-> "channel", videos |-> batch.videos,
        skipExisting |-> batch.skipExisting, ledger |-> batch.ledger,
        resp |-> [status |-> 200, success |-> TRUE, result |-> batch.result]]
  ELSE LET videoId == batch.videos[batch.v]
           existing == existingDocs(store, videoId)
       IN  IF batch.skipExisting /\ Len(existing) > 0
           THEN channelLoop(Advance(batch,
                                    Succeeded(batch.result, videoId, Len(existing)),
                                    "skipped", Len(existing), 0),
                            store)
           ELSE VideoState("downloading", "channel", videoId, TRUE, batch)

\* The success response of a single-video route; chunks -1: the caption route
\* reports no count.
VideoSuccess(q, store) ==
  [pc |-> "done", route |-> q.route,
   resp |-> [status |-> 200, success |-> TRUE, source |-> q.source,
             alreadyProcessed |-> FALSE,
             chunks |-> IF q.route = "whisper"
                        THEN Len(existingDocs(store, q.videoId))
                        ELSE IF q.route = "enhanced"
                        THEN Len(SelectSeq(store, LAMBDA doc : doc.metadata.source = q.source))
                        ELSE -1]]

\* What a route does once addDocument has returned, on the store as it is then.
AfterAddDocument(q, store) ==
  IF q.route \in {"upload", "manual", "loader"}
  THEN Proceed(q.route, q.source, q.calls, q.i + 1)
  ELSE IF q.route = "channel"
  THEN LET videoChunks == Len(existingDocs(store, q.videoId))
       IN  channelLoop(Advance(q.batch,
                               Succeeded(q.batch.result, q.videoId, videoChunks),
                               "processed", videoChunks - Len(q.chunks), Len(q.chunks)),
                       store)
  ELSE VideoSuccess(q, store)

\* The 500 answer of the whisper route; details tells which call threw
\* (details: errorMessage).
WhisperError(details) ==
  [pc |-> "done", route |-> "whisper",
   resp |-> [status |-> 500, success |-> FALSE, details |-> details]]

\* addDocument throws and no catch around the video stops it: it reaches
\* the catch of the route.
AfterThrow_noPerVideoCatch(q, store) ==
  IF q.route = "whisper"
  THEN WhisperError("embedding")
  ELSE [pc |-> "done", route |-> q.route,
        resp |-> [status |-> IF q.route \in {"loader", "caption"} THEN 400 ELSE 500,
                  success |-> FALSE]]

\* What a route does once addDocument has thrown.
AfterThrow(q, store) ==
  IF q.route = "channel"
  THEN channelLoop(Advance(q.batch, Failed(q.batch.result, q.videoId, "error"),
                           "failed", 0, q.j - 1),
                   store)
  ELSE IF q.route = "whisper"
  THEN WhisperError("embedding")
  ELSE [pc |-> "done", route |-> q.route,
        resp |-> [status |-> IF q.route \in {"loader", "caption"} THEN 400 ELSE 500,
                  success |-> FALSE]]

\* addDocument(content, { source, ... }) called by a video route: it runs to
\* its first awaited embedding (or returns at once when there is no chunk).
VideoAddDocument(route, videoId, hasDetails, batch, source, content, store) ==
  LET q == [pc |-> "embedding", route |-> route, videoId |-> videoId,
            hasDetails |-> hasDetails, batch |-> batch, source |-> source,
            calls |-> <<content>>, i |-> 1,
            chunks |-> chunkText(content, ChunkTextMaxLength), j |-> 1]
  IN  IF q.chunks = <<>> THEN AfterAddDocument(q, store) ELSE q

\* DocumentChunk built before its embedding is there.
DocumentChunk_noEmbedding(r, embedding) ==
  [id        |-> <<r.source, r.j - 1>>,
   content   |-> r.chunks[r.j],
   embedding |-> <<>>,
   metadata  |-> Metadata(r.route, r.source, r.i)]

\* The record addDocument builds for chunk j (from 1) of its chunks.
DocumentChunk(r, embedding) ==
  [id        |-> <<r.source, r.j - 1>>,
   content   |-> r.chunks[r.j],
   embedding |-> embedding,
   metadata  |-> Metadata(r.route, r.source, r.i)]

\* An insertion that would replace the stored record of the same id.
push_upsert(store, documentChunk) ==
  IF \E i \in 1..Len(store) : store[i].id = documentChunk.id
  THEN [i \in 1..Len(store) |->
          IF store[i].id = documentChunk.id THEN documentChunk ELSE store[i]]
  ELSE Append(store, documentChunk)

\* An insertion at the front of the store.
push_front(store, documentChunk) == <<documentChunk>> \o store

\* documentStore.push(documentChunk)
push(store, documentChunk) == Append(store, documentChunk)

\* createEmbedding answers: the record is pushed, the loop goes on.
addDocument_push(r, embedding) ==
  /\ req[r].pc = "embedding"
  /\ Len(documentStore) < MaxStore
  /\ documentStore' = push(documentStore, DocumentChunk(req[r], embedding))
  /\ req' = [Pending EXCEPT ![r] =
       IF req[r].j < Len(req[r].chunks)
       THEN [req[r] EXCEPT !.j = @ + 1]
       ELSE AfterAddDocument(req[r], documentStore')]
  /\ search' = PendingSearch
  /\ adminResp' = NoResp
  /\ UNCHANGED <<started, fnVars, uploads>>

\* createEmbedding throws: addDocument throws, the route's catch answers.
addDocument_throw(r) ==
  /\ req[r].pc = "embedding"
  /\ req' = [Pending EXCEPT ![r] = AfterThrow(req[r], documentStore)]
  /\ search' = PendingSearch
  /\ adminResp' = NoResp
  /\ UNCHANGED <<documentStore, started, fnVars, uploads>>

(***************************************************************************)
(* Ingestion routes                                                        *)
(***************************************************************************)
\* A request needs a free slot.
CanStart(r) ==
  /\ Pending[r].pc = "idle"
  /\ started < MaxIngest

Rejected(route, status) ==
  [pc |-> "done", route |-> route, resp |-> [status |-> status, success |-> FALSE]]

\* POST /api/upload
upload_POST(r, fileType, fileText) ==
  /\ CanStart(r)
  /\ started' = started + 1
  /\ req' = [Pending EXCEPT ![r] =
       IF fileType \notin allowedTypes
       THEN Rejected("upload", 400)
       ELSE LET fileId == uuidv4(started + 1)
                textContent ==
                  IF fileType = "text/plain" THEN fileText
                  ELSE IF fileType = "application/pdf" THEN PdfPlaceholder
                  ELSE DocPlaceholder
            IN  Proceed("upload", fileId, <<textContent>>, 1)]
  /\ search' = PendingSearch
  /\ adminResp' = NoResp
  /\ UNCHANGED <<documentStore, fnVars, uploads>>

\* The manual route if a transcript that gives no chunk were an error.
youtubeManual_POST_rejectNoChunks(r, videoId, transcriptText) ==
  /\ CanStart(r)
  /\ started' = started + 1
  /\ req' = [Pending EXCEPT ![r] =
       IF transcriptText = <<>> \/ videoId = "invalid"
       THEN Rejected("manual", 400)
       ELSE IF createSemanticChunks(transcriptText) = <<>>
       THEN Rejected("manual", 500)
       ELSE Proceed("manual", videoId, createSemanticChunks(transcriptText), 1)]
  /\ search' = PendingSearch
  /\ adminResp' = NoResp
  /\ UNCHANGED <<documentStore, fnVars, uploads>>

\* POST /api/youtube-manual; videoId "invalid" stands for a URL the pattern
\* does not match.
youtubeManual_POST(r, videoId, transcriptText) ==
  /\ CanStart(r)
  /\ started' = started + 1
  /\ req' = [Pending EXCEPT ![r] =
       IF transcriptText = <<>> \/ videoId = "invalid"
       THEN Rejected("manual", 400)
       ELSE Proceed("manual", videoId, createSemanticChunks(transcriptText), 1)]
  /\ search' = PendingSearch
  /\ adminResp' = NoResp
  /\ UNCHANGED <<documentStore, fnVars, uploads>>

\* POST /api/youtube (YouTubeTranscriptLoader); fetched = FALSE stands for a
\* caption fetch that throws.
youtube_POST(r, videoId, fetched, transcript) ==
  /\ CanStart(r)
  /\ started' = started + 1
  /\ req' = [Pending EXCEPT ![r] =
       IF videoId = "invalid" \/ ~fetched \/ transcript = <<>>
       THEN Rejected("loader", 400)
       ELSE Proceed("loader", videoId, loaderCreateSemanticChunks(transcript), 1)]
  /\ search' = PendingSearch
  /\ adminResp' = NoResp
  /\ UNCHANGED <<documentStore, fnVars, uploads>>

(***************************************************************************)
(* Video routes: captions, enhanced captions, whisper, channel batch       *)
(***************************************************************************)
\* POST of the caption route (YoutubeTranscript.fetchTranscript, one
\* addDocument of the joined text); fetched = FALSE: the fetch throws.
caption_POST(r, videoId, fetched, transcript) ==
  /\ CanStart(r)
  /\ started' = started + 1
  /\ req' = [Pending EXCEPT ![r] =
       IF videoId = "invalid" \/ ~fetched
       THEN Rejected("caption", 400)
       ELSE VideoAddDocument("caption", videoId, FALSE, NoBatch, videoId,
                             join(transcript), documentStore)]
  /\ search' = PendingSearch
  /\ adminResp' = NoResp
  /\ UNCHANGED <<documentStore, fnVars, uploads>>

\* A 400 answer of the enhanced caption route; error tells which of its
\* messages it carries, captions whether the video's captions could have
\* been fetched (known to the environment, not part of the answer).
EnhancedRejected(error, captions) ==
  [pc |-> "done", route |-> "enhanced", captions |-> captions,
   resp |-> [status |-> 400, success |-> FALSE, error |-> error]]

\* POST of the enhanced caption route.  lookup is what the metadata lookup
\* comes to: "nokey" (no API key, no lookup), "nothing" (fetchVideoDetails
\* returns null: no item, or the API call failed) or "details".
enhanced_POST(r, videoId, lookup, fetched, transcript) ==
  /\ CanStart(r)
  /\ started' = started + 1
  /\ req' = [Pending EXCEPT ![r] =
       IF videoId = "invalid"
       THEN EnhancedRejected("url", FALSE)
       ELSE IF lookup = "nothing"
       THEN EnhancedRejected("details", fetched /\ join(transcript) # <<>>)
       ELSE IF ~fetched \/ join(transcript) = <<>>
       THEN EnhancedRejected("transcript", FALSE)
       ELSE VideoAddDocument("enhanced", videoId, lookup = "details", NoBatch,
                             watchUrl(videoId),
                             enhancedContent(lookup = "details", videoId, join(transcript)),
                             documentStore)]
  /\ search' = PendingSearch
  /\ adminResp' = NoResp
  /\ UNCHANGED <<documentStore, fnVars, uploads>>

\* The whisper route without its look into the store.
whisper_POST_noCheck(r, videoId, lookup) ==
  /\ CanStart(r)
  /\ started' = started + 1
  /\ req' = [Pending EXCEPT ![r] =
       IF videoId = "invalid"
       THEN Rejected("whisper", 400)
       ELSE VideoState("downloading", "whisper", videoId, lookup = "details", NoBatch)]
  /\ search' = PendingSearch
  /\ adminResp' = NoResp
  /\ UNCHANGED <<documentStore, fnVars, uploads>>

\* POST of the whisper route up to the await of downloadYouTubeAudio.
whisper_POST(r, videoId, lookup) ==
  /\ CanStart(r)
  /\ started' = started + 1
  /\ req' = [Pending EXCEPT ![r] =
       IF videoId = "invalid"
       THEN Rejected("whisper", 400)
       ELSE LET existing == existingDocs(documentStore, videoId)
            IN  IF Len(existing) > 0
                THEN [pc |-> "done", route |-> "whisper",
                      resp |-> [status |-> 200, success |-> TRUE,
                                source |-> watchUrl(videoId),
                                alreadyProcessed |-> TRUE,
                                chunks |-> Len(existing)]]
                ELSE VideoState("downloading", "whisper", videoId,
                                lookup = "details", NoBatch)]
  /\ search' = PendingSearch
  /\ adminResp' = NoResp
  /\ UNCHANGED <<documentStore, fnVars, uploads>>

\* POST of the channel route up to the first download; resolved = FALSE: the
\* channel is not found.
channel_POST(r, resolved, videos, skipExisting) ==
  /\ CanStart(r)
  /\ started' = started + 1
  /\ req' = [Pending EXCEPT ![r] =
       IF ~resolved \/ videos = <<>>
       THEN Rejected("channel", 400)
       ELSE channelLoop(NewBatch(videos, skipExisting), documentStore)]
  /\ search' = PendingSearch
  /\ adminResp' = NoResp
  /\ UNCHANGED <<documentStore, fnVars, uploads>>

\* downloadYouTubeAudio resolves: `${videoId}_audio.mp4` is written.
downloadYouTubeAudio_resolve(r) ==
  /\ req[r].pc = "downloading"
  /\ uploads' = uploads \cup {req[r].videoId}
  /\ req' = [Pending EXCEPT ![r] = [req[r] EXCEPT !.pc = "transcribing"]]
  /\ search' = PendingSearch
  /\ adminResp' = NoResp
  /\ UNCHANGED <<documentStore, started, fnVars>>

\* downloadYouTubeAudio rejects, no file written: the whisper route answers
\* 500, fetchTranscript of the channel route returns null.
downloadYouTubeAudio_reject(r) ==
  /\ req[r].pc = "downloading"
  /\ req' = [Pending EXCEPT ![r] =
       IF req[r].route = "channel"
       THEN channelLoop(Advance(req[r].batch,
                                Failed(req[r].batch.result, req[r].videoId, "whisper_failed"),
                                "failed", 0, 0),
                        documentStore)
       ELSE WhisperError("download")]
  /\ search' = PendingSearch
  /\ adminResp' = NoResp
  /\ UNCHANGED <<documentStore, started, fnVars, uploads>>

\* unlink(audioPath)
unlink(files, videoId) == files \ {videoId}

\* What follows the transcription: it threw, or it returned a text.
Transcribed(q, threw, transcription, store) ==
  IF q.route = "channel"
  THEN IF threw \/ Trim(transcription) = <<>>
       THEN channelLoop(Advance(q.batch,
                                Failed(q.batch.result, q.videoId, "whisper_failed"),
                                "failed", 0, 0),
                        store)
       ELSE VideoAddDocument("channel", q.videoId, TRUE, q.batch,
                             watchUrl(q.videoId),
                             channelContent(q.videoId, transcription), store)
  ELSE IF threw
       THEN WhisperError("transcription")
       ELSE IF Trim(transcription) = <<>>
       THEN Rejected("whisper", 400)
       ELSE VideoAddDocument("whisper", q.videoId, q.hasDetails, NoBatch,
                             watchUrl(q.videoId),
                             whisperContent(q.hasDetails, q.videoId, transcription),
                             store)

\* transcribeWithWhisper reads the audio file (await readFile(audioPath)) and
\* sends it to the transcription API; without the file it throws, and the
\* unlink of the finally block finds nothing to delete.
readFile(r) ==
  /\ req[r].pc = "transcribing"
  /\ req' = [Pending EXCEPT ![r] =
       IF req[r].videoId \in uploads
       THEN [req[r] EXCEPT !.pc = "whisper"]
       ELSE Transcribed(req[r], TRUE, <<>>, documentStore)]
  /\ search' = PendingSearch
  /\ adminResp' = NoResp
  /\ UNCHANGED <<documentStore, started, fnVars, uploads>>

\* transcribeWithWhisper with the unlink on the success path only.
transcribeWithWhisper_settle_noFinally(r, threw, transcription) ==
  /\ req[r].pc = "whisper"
  /\ uploads' = IF threw
                THEN uploads
                ELSE unlink(uploads, req[r].videoId)
  /\ req' = [Pending EXCEPT ![r] = Transcribed(req[r], threw, transcription, documentStore)]
  /\ search' = PendingSearch
  /\ adminResp' = NoResp
  /\ UNCHANGED <<documentStore, started, fnVars>>

\* transcribeWithWhisper settles, the finally block unlinks the audio file,
\* and the route goes on to addDocument or to its answer.
transcribeWithWhisper_settle(r, threw, transcription) ==
  /\ req[r].pc = "whisper"
  /\ uploads' = unlink(uploads, req[r].videoId)
  /\ req' = [Pending EXCEPT ![r] = Transcribed(req[r], threw, transcription, documentStore)]
  /\ search' = PendingSearch
  /\ adminResp' = NoResp
  /\ UNCHANGED <<documentStore, started, fnVars>>

(***************************************************************************)
(* searchSimilarDocuments (vectorSearch.ts)                                *)
(***************************************************************************)
Returned(topK, embedded, queryEmbedding, result) ==
  [pc |-> "done", outcome |-> "returned", topK |-> topK, embedded |-> embedded,
   queryEmbedding |-> queryEmbedding, result |-> result]

\* The call without its check of the empty store.
searchSimilarDocuments_call_noEmptyCheck(topK) ==
  /\ PendingSearch.pc = "idle"
  /\ search' = [pc |-> "embedding"]
  /\ req' = Pending
  /\ adminResp' = NoResp
  /\ UNCHANGED <<documentStore, started, fnVars, uploads>>

\* The call up to its first await: the empty store answers at once.  (topK
\* is read by slice alone, so the model draws it when the call returns.)
searchSimilarDocuments_call(topK) ==
  /\ PendingSearch.pc = "idle"
  /\ search' = IF Len(documentStore) = 0
               THEN Returned(topK, FALSE, <<0, 0>>, <<>>)
               ELSE [pc |-> "embedding"]
  /\ req' = Pending
  /\ adminResp' = NoResp
  /\ UNCHANGED <<documentStore, started, fnVars, uploads>>

\* createEmbedding(query) answers: score, sort, slice over the store as it is now.
searchSimilarDocuments_return(topK, queryEmbedding) ==
  /\ search.pc = "embedding"
  /\ \E result \in SearchResults(documentStore, queryEmbedding, topK) :
       search' = Returned(topK, TRUE, queryEmbedding, result)
  /\ req' = Pending
  /\ adminResp' = NoResp
  /\ UNCHANGED <<documentStore, started, fnVars, uploads>>

\* createEmbedding(query) throws.
searchSimilarDocuments_throw ==
  /\ search.pc = "embedding"
  /\ search' = [pc |-> "done", outcome |-> "threw", topK |-> 0,
                embedded |-> TRUE, queryEmbedding |-> <<0, 0>>, result |-> <<>>]
  /\ req' = Pending
  /\ adminResp' = NoResp
  /\ UNCHANGED <<documentStore, started, fnVars, uploads>>

(***************************************************************************)
(* Admin routes                                                            *)
(***************************************************************************)
\* documents.findIndex(doc => doc.id === documentId), 1-based; 0 for -1.
findIndex(documents, documentId) ==
  IF \A i \in 1..Len(documents) : documents[i].id # documentId
  THEN 0
  ELSE CHOOSE i \in 1..Len(documents) :
         /\ documents[i].id = documentId
         /\ \A k \in 1..(i-1) : documents[k].id # documentId

\* documents.splice(index, 1), index 1-based
splice(documents, index) ==
  SubSeq(documents, 1, index - 1) \o SubSeq(documents, index + 1, Len(documents))

\* getServerSession(): no session, or the session of a signed-in user.
ADMIN_EMAIL == "admin@example.com"
NoSession == [signedIn |-> FALSE, email |-> ""]
SessionOf(email) == [signedIn |-> TRUE, email |-> email]
Sessions == { NoSession, SessionOf(ADMIN_EMAIL), SessionOf("user@example.com") }
AdminOrNone == { NoSession, SessionOf(ADMIN_EMAIL) }

\* The check if any signed-in user passed it.
Authorized_anySession(session) == session.signedIn

\* !(!session || session.user?.email !== process.env.ADMIN_EMAIL)
Authorized(session) == ~(~session.signedIn \/ session.email # ADMIN_EMAIL)

\* DELETE without the check of findIndex's -1: splice(-1, 1) removes the
\* last record.
documents_DELETE_noNotFound(session, documentId) ==
  /\ IF ~Authorized(session)
     THEN /\ adminResp' = [op |-> "delete", status |-> 401, id |-> NoId,
                            session |-> session]
          /\ UNCHANGED documentStore
     ELSE LET documentIndex == findIndex(documentStore, documentId)
          IN  /\ adminResp' = [op |-> "delete", status |-> 200, id |-> documentId,
                            session |-> session]
              /\ documentStore' =
                   IF documentIndex = 0
                   THEN SubSeq(documentStore, 1, Len(documentStore) - 1)
                   ELSE splice(documentStore, documentIndex)
  /\ req' = Pending
  /\ search' = PendingSearch
  /\ UNCHANGED <<started, fnVars, uploads>>

\* DELETE /api/admin/documents/[id]
documents_DELETE(session, documentId) ==
  /\ IF ~Authorized(session)
     THEN /\ adminResp' = [op |-> "delete", status |-> 401, id |-> NoId,
                            session |-> session]
          /\ UNCHANGED documentStore
     ELSE LET documentIndex == findIndex(documentStore, documentId)
          IN  IF documentIndex = 0
              THEN /\ adminResp' = [op |-> "delete", status |-> 404, id |-> documentId,
                            session |-> session]
                   /\ UNCHANGED documentStore
              ELSE /\ adminResp' = [op |-> "delete", status |-> 200, id |-> documentId,
                            session |-> session]
                   /\ documentStore' = splice(documentStore, documentIndex)
  /\ req' = Pending
  /\ search' = PendingSearch
  /\ UNCHANGED <<started, fnVars, uploads>>

\* A clear that empties a copy and leaves the store as it is.
clearDocumentStore_noop == documentStore

\* documentStore = []
clearDocumentStore == <<>>

\* POST /api/admin/documents/clear
documentsClear_POST(session) ==
  /\ IF ~Authorized(session)
     THEN /\ adminResp' = [op |-> "clear", status |-> 401, session |-> session]
          /\ UNCHANGED documentStore
     ELSE /\ adminResp' = [op |-> "clear", status |-> 200, session |-> session]
          /\ documentStore' = clearDocumentStore
  /\ req' = Pending
  /\ search' = PendingSearch
  /\ UNCHANGED <<started, fnVars, uploads>>

getDocumentStore == documentStore

\* GET /api/admin/documents
documents_GET(session) ==
  /\ adminResp' = IF ~Authorized(session)
                  THEN [op |-> "list", status |-> 401, session |-> session]
                  ELSE [op |-> "list", status |-> 200, session |-> session,
                        documents |-> getDocumentStore]
  /\ req' = Pending
  /\ search' = PendingSearch
  /\ UNCHANGED <<documentStore, started, fnVars, uploads>>

(***************************************************************************)
(* The server                                                              *)
(***************************************************************************)
Init ==
  /\ documentStore = <<>>
  /\ req = [r \in Requests |-> Idle]
  /\ started = 0
  /\ search = NoSearch
  /\ adminResp = NoResp
  /\ fnText = <<>>
  /\ fnName = "none"
  /\ fnChunks = <<>>
  /\ uploads = {}

Upload(texts) ==
  \E r \in Requests, t \in FileTypes, x \in texts : upload_POST(r, t, x)
Manual(texts) ==
  \E r \in Requests, v \in VideoIds \cup {"invalid"}, x \in texts :
    youtubeManual_POST(r, v, x)
Loader(transcripts) ==
  \E r \in Requests, v \in VideoIds \cup {"invalid"}, f \in BOOLEAN, x \in transcripts :
    youtube_POST(r, v, f, x)
Embedded(vectors) == \E r \in Requests, e \in vectors : addDocument_push(r, e)
EmbedFailed == \E r \in Requests : addDocument_throw(r)
SearchCall == \E k \in 0..MaxTopK : searchSimilarDocuments_call(k)
SearchReturn ==
  \E k \in 0..MaxTopK, q \in Vectors : searchSimilarDocuments_return(k, q)
SearchThrow == searchSimilarDocuments_throw
Delete(sessions) ==
  \E a \in sessions, d \in StoredIds(documentStore) \cup {NoId} : documents_DELETE(a, d)
Clear(sessions) == \E a \in sessions : documentsClear_POST(a)
List(sessions) == \E a \in sessions : documents_GET(a)

\* The server on short documents: ingestion, search and administration.
Next ==
  \/ Upload(ShortTexts) \/ Manual(ShortTexts) \/ Loader(ShortTranscripts)
  \/ Embedded(Vectors) \/ EmbedFailed
  \/ SearchCall \/ SearchReturn \/ SearchThrow
  \/ Delete(AdminOrNone) \/ Clear(AdminOrNone) \/ List(AdminOrNone)

Spec == Init /\ [][Next]_vars

\* The server on long documents, every embedding the same vector: ingestion
\* and administration.
IngestNext ==
  \/ Upload(LongTexts) \/ Manual(LongTexts) \/ Loader(LongTranscripts)
  \/ Embedded({<<1, 0>>}) \/ EmbedFailed
  \/ Delete(Sessions) \/ Clear(Sessions) \/ List(Sessions)

SpecIngest == Init /\ [][IngestNext]_vars

\* The server on videos: the caption routes, the whisper route and the
\* channel batch, every embedding the same vector.
Lookups == { "nokey", "nothing", "details" }
VideoTranscripts == { <<>>, <<OneSentence>> }
Transcriptions == { <<>>, <<" ">>, OneSentence, TwoSentences }
VideoLists == { <<>>, <<"vidA">>, <<"vidA", "vidB">> }

Caption ==
  \E r \in Requests, v \in VideoIds \cup {"invalid"}, f \in BOOLEAN, x \in VideoTranscripts :
    caption_POST(r, v, f, x)
Enhanced ==
  \E r \in Requests, v \in VideoIds \cup {"invalid"}, l \in Lookups, f \in BOOLEAN,
     x \in VideoTranscripts :
    enhanced_POST(r, v, l, f, x)
Whisper ==
  \E r \in Requests, v \in VideoIds \cup {"invalid"}, l \in Lookups : whisper_POST(r, v, l)
Channel ==
  \E r \in Requests, c \in BOOLEAN, vs \in VideoLists, s \in BOOLEAN :
    channel_POST(r, c, vs, s)
Downloaded == \E r \in Requests : downloadYouTubeAudio_resolve(r)
DownloadFailed == \E r \in Requests : downloadYouTubeAudio_reject(r)
FileRead == \E r \in Requests : readFile(r)
TranscriptionSettled ==
  \E r \in Requests, threw \in BOOLEAN, t \in Transcriptions :
    transcribeWithWhisper_settle(r, threw, t)

VideoNext ==
  \/ Caption \/ Enhanced \/ Loader(VideoTranscripts) \/ Whisper \/ Channel
  \/ Downloaded \/ DownloadFailed \/ FileRead \/ TranscriptionSettled
  \/ Embedded({<<1, 0>>}) \/ EmbedFailed
  \/ List(Sessions)

SpecVideo == Init /\ [][VideoNext]_vars

\* Uploads and clears alone: whatever is missing from the store was cleared.
ClearNext ==
  \/ Upload(LongTexts)
  \/ Embedded({<<1, 0>>}) \/ EmbedFailed
  \/ Clear(Sessions)

SpecClear == Init /\ [][ClearNext]_vars

\* Two requests at a time: uploads of a two-chunk text, the whisper route and
\* the channel batch on the same video, with searches, deletes and listings
\* by the admin in between.
Slots == { "r1", "r2" }

RaceInit ==
  /\ documentStore = <<>>
  /\ req = [r \in Slots |-> Idle]
  /\ started = 0
  /\ search = NoSearch
  /\ adminResp = NoResp
  /\ fnText = <<>>
  /\ fnName = "none"
  /\ fnChunks = <<>>
  /\ uploads = {}

RaceUpload == \E r \in Slots : upload_POST(r, "text/plain", TwoSentences)
RaceWhisper == \E r \in Slots : whisper_POST(r, "vidA", "details")
RaceChannel == \E r \in Slots : channel_POST(r, TRUE, <<"vidA">>, TRUE)
RaceDownloaded == \E r \in Slots : downloadYouTubeAudio_resolve(r)
RaceDownloadFailed == \E r \in Slots : downloadYouTubeAudio_reject(r)
RaceFileRead == \E r \in Slots : readFile(r)
RaceTranscriptionSettled ==
  \E r \in Slots, threw \in BOOLEAN : transcribeWithWhisper_settle(r, threw, OneSentence)
RaceEmbedded == \E r \in Slots : addDocument_push(r, <<1, 0>>)
RaceEmbedFailed == \E r \in Slots : addDocument_throw(r)
RaceSearchCall == searchSimilarDocuments_call(DefaultTopK)
RaceSearchReturn == searchSimilarDocuments_return(DefaultTopK, <<1, 0>>)
AdminOnly == { SessionOf(ADMIN_EMAIL) }

RaceNext ==
  \/ RaceUpload \/ RaceWhisper \/ RaceChannel
  \/ RaceDownloaded \/ RaceDownloadFailed \/ RaceFileRead \/ RaceTranscriptionSettled
  \/ RaceEmbedded \/ RaceEmbedFailed
  \/ RaceSearchCall \/ RaceSearchReturn
  \/ Delete(AdminOnly) \/ List(AdminOnly)

SpecRace == RaceInit /\ [][RaceNext]_vars

(***************************************************************************)
(* The chunkers as pure functions of their input                           *)
(***************************************************************************)
Segments ==
  { Rep("a", 500), Rep("b", 499), Rep("c", 150), Rep("d", 900),
    <<".">>, <<" ">>, <<"H", "i">>,
    Rep("e", 9) \o <<" ">> \o Rep("f", 9) \o <<" ">> \o Rep("g", 30),
    Rep("h", 300) \o <<" ">> \o Rep("i", 100) \o <<" ">>,
    Rep("k", 400) \o <<"\n">> \o Rep("j", 199) }

RECURSIVE Concat(_)
Concat(ss) == IF ss = <<>> THEN <<>> ELSE Head(ss) \o Concat(Tail(ss))

Texts == { Concat(ss) : ss \in UNION { [1..n -> Segments] : n \in 0..MaxSegs } }

ChunkInit ==
  /\ fnText \in Texts
  /\ fnName = "none"
  /\ fnChunks = <<>>
  /\ documentStore = <<>>
  /\ req = [r \in Requests |-> Idle]
  /\ started = 0
  /\ search = NoSearch
  /\ adminResp = NoResp
  /\ uploads = {}

ApplyChunkText ==
  /\ fnName = "none"
  /\ fnName' = "chunkText"
  /\ fnChunks' = chunkText(fnText, ChunkTextMaxLength)
  /\ UNCHANGED <<fnText, storeVars>>

ApplyCreateSemanticChunks ==
  /\ fnName = "none"
  /\ fnName' = "createSemanticChunks"
  /\ fnChunks' = createSemanticChunks(fnText)
  /\ UNCHANGED <<fnText, storeVars>>

\* The caption items of a transcript whose text is fnText: the pieces between
\* its terminators, as they are.
TranscriptItems(text) == SelectSeq(SplitSentences(text), LAMBDA s : s # <<>>)

ApplyLoaderChunks ==
  /\ fnName = "none"
  /\ fnName' = "loaderCreateSemanticChunks"
  /\ fnChunks' = loaderCreateSemanticChunks(TranscriptItems(fnText))
  /\ UNCHANGED <<fnText, storeVars>>

\* chunkText with a maxLength that short texts exceed.
ShortMaxLength == 10

ApplyChunkTextShort ==
  /\ fnName = "none"
  /\ fnName' = "chunkTextShort"
  /\ fnChunks' = chunkText(fnText, ShortMaxLength)
  /\ UNCHANGED <<fnText, storeVars>>

ChunkNext ==
  \/ ApplyChunkText \/ ApplyChunkTextShort
  \/ ApplyCreateSemanticChunks \/ ApplyLoaderChunks

SpecChunk == ChunkInit /\ [][ChunkNext]_vars

(***************************************************************************)
(* Claims                                                                  *)
(***************************************************************************)
SearchReturned ==
  search.pc = "done" /\ search.outcome = "returned" /\ search.embedded

\* Comparisons of two similarities.  A NaN is greater than nothing and
\* nothing is greater than it; two NaN count as equal, the reading that
\* favours a ranking of records none of which has a similarity.
SimGreater(x, y) == ~x.nan /\ ~y.nan /\ x.s * y.d > y.s * x.d
SimEqual(x, y) ==
  \/ x.nan /\ y.nan
  \/ ~x.nan /\ ~y.nan /\ x.s * y.d = y.s * x.d

Min2(a, b) == IF a < b THEN a ELSE b

\* result is the ranking of the store by similarity to q, cut at k: which
\* records (by position), in which order.
IsRanking(result, store, q, k) ==
  LET sims == Similarities(store, q)
      N == Len(store)
      Ahead(i, j) == SimGreater(sims[i], sims[j]) \/ (SimEqual(sims[i], sims[j]) /\ i < j)
  IN  /\ Len(result) = Min2(k, N)
      /\ \E at \in [1..Len(result) -> 1..N] :
           /\ \A p \in 1..Len(result) : result[p] = store[at[p]]
           /\ \A p, r \in 1..Len(result) : p < r => Ahead(at[p], at[r])
           /\ \A p \in 1..Len(result) :
                \A i \in 1..N : (\A r \in 1..Len(result) : at[r] # i) => Ahead(at[p], i)

\* C1: searchSimilarDocuments(query, k) on a store of N records returns
\* exactly min(k, N) records, those of highest cosine similarity to the query
\* embedding, in non-increasing similarity order, equal similarities in
\* insertion order.
C1_TopKRanking ==
  SearchReturned =>
    IsRanking(search.result, documentStore, search.queryEmbedding, search.topK)

\* C2: a searchSimilarDocuments call made on an empty store returns the empty
\* sequence at that very step, without consulting the embedder and without
\* throwing, for every k.
C2_EmptyStoreSearch ==
  [][ (PendingSearch.pc = "idle" /\ search'.pc # "idle" /\ Len(documentStore) = 0)
      => (search'.pc = "done" /\ search'.outcome = "returned" /\ search'.result = <<>>)
    ]_vars

C2_Witness ==
  search.pc = "done" /\ ~search.embedded /\ search.outcome = "returned"
  /\ search.result = <<>> /\ search.topK = MaxTopK

\* C3 as claimed: a query whose embedding equals that of a stored chunk C
\* returns C as the first result, for every k >= 1.
C3_RoundTripIsTop ==
  (SearchReturned /\ search.topK >= 1) =>
    \A i \in 1..Len(documentStore) :
      documentStore[i].embedding = search.queryEmbedding
        => search.result[1] = documentStore[i]

AllDefined(sims) == \A i \in DOMAIN sims : ~sims[i].nan

\* C3 as amended: when every similarity is a number (no zero-magnitude
\* embedding), a query whose embedding equals that of a stored chunk C
\* returns, for every k >= 1, the earliest-inserted record whose similarity
\* equals C's: C itself exactly when no earlier record ties with it.
C3_RoundTripTopTies ==
  LET sims == Similarities(documentStore, search.queryEmbedding)
  IN  (SearchReturned /\ search.topK >= 1 /\ AllDefined(sims)) =>
        \A i \in 1..Len(documentStore) :
          documentStore[i].embedding = search.queryEmbedding =>
            LET first == CHOOSE j \in 1..Len(documentStore) :
                           /\ SimEqual(sims[j], sims[i])
                           /\ \A m \in 1..(j-1) : ~SimEqual(sims[m], sims[i])
            IN  /\ search.result[1] = documentStore[first]
                /\ \A m \in 1..Len(documentStore) : ~SimGreater(sims[m], sims[i])

\* A round trip in which the ranking matters: C is stored after a record of
\* lower similarity and comes back first.
C3_Witness ==
  /\ SearchReturned /\ search.topK >= 1
  /\ Len(documentStore) = 2
  /\ AllDefined(Similarities(documentStore, search.queryEmbedding))
  /\ documentStore[2].embedding = search.queryEmbedding
  /\ documentStore[1].embedding # search.queryEmbedding
  /\ search.result[1] = documentStore[2]

\* C4: after an admin delete of an id present in the store succeeds, the
\* store (what every later query and listing reads) holds no record with that
\* id.
C4_DeletedIdGone ==
  (adminResp.op = "delete" /\ adminResp.status = 200) =>
    \A i \in 1..Len(getDocumentStore) : getDocumentStore[i].id # adminResp.id

\* C5: an admin delete of an id that no record has answers 404 (never an
\* exception, never success) and leaves the store exactly as it was, so the
\* same delete repeated meets the same store and gives the same answer.
C5_DeleteAbsent ==
  [][ (adminResp'.op = "delete" /\ adminResp'.status # 401
         /\ findIndex(documentStore, adminResp'.id) = 0)
      => (adminResp'.status = 404 /\ documentStore' = documentStore)
    ]_vars

C5_Witness ==
  adminResp.op = "delete" /\ adminResp.status = 404 /\ Len(documentStore) = MaxStore

\* C6: once the admin clear has answered, getDocumentStore() is empty; a
\* search that returns while the store is empty returns the empty sequence;
\* and an empty store stays empty until addDocument pushes a record.
C6_ClearAll ==
  /\ []((adminResp.op = "clear" /\ adminResp.status = 200) => getDocumentStore = <<>>)
  /\ []((search.pc = "done" /\ search.outcome = "returned" /\ Len(getDocumentStore) = 0)
          => search.result = <<>>)
  /\ [][ (documentStore = <<>> /\ documentStore' # <<>>)
         => \E r \in Requests :
              /\ req[r].pc = "embedding"
              /\ \E e \in Vectors : documentStore' = <<DocumentChunk(req[r], e)>>
       ]_vars

\* The clear has just emptied a store that a search in flight found non-empty.
C6_Witness ==
  adminResp.op = "clear" /\ adminResp.status = 200 /\ search.pc = "embedding"

\* C7: the records stored by a single ingestion have pairwise distinct ids
\* {source}-{sequenceIndex} (stated of the store while one ingestion only
\* has run).
C7_UniqueIds ==
  started = 1 =>
    \A i, j \in 1..Len(documentStore) :
      i # j => documentStore[i].id # documentStore[j].id

\* C8: every stored record holds its content and its embedding, and a step
\* of the server only appends a complete record, removes one record or
\* empties the store: a stored record is never changed.
C8_RecordsComplete ==
  /\ [](\A i \in 1..Len(documentStore) :
          /\ documentStore[i].content # <<>>
          /\ documentStore[i].embedding \in Vectors)
  /\ [][ \/ documentStore' = documentStore
         \/ documentStore' = <<>>
         \/ /\ Len(documentStore') = Len(documentStore) + 1
            /\ SubSeq(documentStore', 1, Len(documentStore)) = documentStore
         \/ \E i \in 1..Len(documentStore) : documentStore' = splice(documentStore, i)
       ]_vars

\* A record is in the store while another ingestion awaits its embedding.
C8_Witness ==
  Len(documentStore) >= 1 /\ \E r \in Requests : req[r].pc = "embedding"

\* The chunk has a sentence boundary inside: a terminator with text after it.
HasInternalBoundary(chunk) ==
  \E i, j \in 1..Len(chunk) :
    i < j /\ chunk[i] \in Punct /\ chunk[j] \notin (Punct \cup WhiteSpace)

\* The chunk is one sentence of the text (createSemanticChunks drops the
\* terminators, so its chunks are compared with the sentences themselves).
IsOneSentence(chunk, text) ==
  \E k \in 1..Len(SemanticSentences(text)) : chunk = Trim(SemanticSentences(text)[k])

\* C9: every chunk of chunkText (maxLength 1000) and of createSemanticChunks
\* (maxChunkSize 1000) has at most 1000 characters, unless it is a single
\* sentence.
C9_ChunkSizeBound ==
  /\ fnName = "chunkText" =>
       \A i \in 1..Len(fnChunks) :
         Len(fnChunks[i]) <= ChunkTextMaxLength \/ ~HasInternalBoundary(fnChunks[i])
  /\ fnName = "createSemanticChunks" =>
       \A i \in 1..Len(fnChunks) :
         Len(fnChunks[i]) <= maxChunkSize \/ IsOneSentence(fnChunks[i], fnText)

\* C10: no chunk stored in the index has fewer than 50 characters.
C10_MinimumLength ==
  \A i \in 1..Len(documentStore) : Len(documentStore[i].content) >= MinChunkLength

\* C11: chunking the empty text yields no chunk, for chunkText and for
\* createSemanticChunks alike.
C11_EmptyInputNoChunk ==
  (fnText = <<>> /\ fnName # "none") => fnChunks = <<>>

\* C12: no similarity that takes part in the ranking of a search is NaN:
\* whenever a search has scored the store, every score is a number.
C12_NoNaNInRanking ==
  SearchReturned => AllDefined(Similarities(documentStore, search.queryEmbedding))

C14_BatchNeverAborts ==
  \A r \in Requests :
    (req[r].pc = "done" /\ req[r].route = "channel" /\ req[r].resp.status # 400) =>
      LET result == req[r].resp.result
          entries == result.processedVideos
      IN  /\ req[r].resp.status = 200 /\ req[r].resp.success
          /\ Len(entries) = Len(req[r].videos)
          /\ \A k \in 1..Len(entries) :
               /\ entries[k].videoId = req[r].videos[k]
               /\ entries[k].status \in {"success", "whisper_failed", "error"}
          /\ result.totalVideosFound = Len(req[r].videos)
          /\ result.videosProcessed + result.videosFailed = result.totalVideosFound

\* A batch of two videos has ended: the first failed in addDocument, the
\* second was processed.
C14_Witness ==
  \E r \in Requests :
    /\ req[r].pc = "done" /\ req[r].route = "channel" /\ req[r].resp.status = 200
    /\ Len(req[r].resp.result.processedVideos) = 2
    /\ req[r].resp.result.processedVideos[1].status = "error"
    /\ req[r].resp.result.processedVideos[2].status = "success"

\* The chunks a batch accounts for: those found for the videos it skipped and
\* those it pushed for the videos it processed.
RECURSIVE LedgerChunks(_)
LedgerChunks(ledger) ==
  IF ledger = <<>>
  THEN 0
  ELSE LedgerChunks(Tail(ledger))
       + (IF Head(ledger).how = "skipped" THEN Head(ledger).existing
          ELSE IF Head(ledger).how = "processed" THEN Head(ledger).created
          ELSE 0)

\* C15: in a channel batch with skipExisting = true every video that has
\* records in the store at its turn is reported as success with that number
\* of chunks and nothing is pushed for it, and the final totalChunks is the
\* sum of those numbers plus the number of chunks the batch pushed for the
\* videos it processed.
C15_SkipExistingTotals ==
  \A r \in Requests :
    (req[r].pc = "done" /\ req[r].route = "channel" /\ req[r].resp.status = 200
       /\ req[r].skipExisting) =>
      LET result == req[r].resp.result
          ledger == req[r].ledger
      IN  /\ Len(ledger) = Len(result.processedVideos)
          /\ \A k \in 1..Len(ledger) :
               /\ ledger[k].existing > 0 => ledger[k].how = "skipped"
               /\ ledger[k].how = "skipped" =>
                    /\ result.processedVideos[k].status = "success"
                    /\ result.processedVideos[k].chunks = ledger[k].existing
                    /\ ledger[k].existing > 0
                    /\ ledger[k].created = 0
          /\ result.totalChunks = LedgerChunks(ledger)

\* A batch has skipped an indexed video and processed a new one.
C15_Witness ==
  \E r \in Requests :
    /\ req[r].pc = "done" /\ req[r].route = "channel" /\ req[r].resp.status = 200
    /\ req[r].skipExisting
    /\ Len(req[r].ledger) = 2
    /\ req[r].ledger[1].how = "skipped"
    /\ req[r].ledger[2].how = "processed"
    /\ req[r].resp.result.totalChunks = 2

\* C16: a single-source adapter whose fetch or extraction yields no text
\* never calls addDocument: no request of the caption, enhanced caption or
\* whisper route awaits an embedding (addDocument called) for a content made
\* of an empty transcript.
C16_NoInsertWithoutText ==
  \A r \in Requests :
    req[r].pc = "embedding" =>
      CASE req[r].route = "caption" -> req[r].calls[1] # <<>>
        [] req[r].route = "enhanced" ->
             req[r].calls[1] # enhancedContent(req[r].hasDetails, req[r].videoId, <<>>)
        [] req[r].route = "whisper" ->
             req[r].calls[1] # whisperContent(req[r].hasDetails, req[r].videoId, <<>>)
        [] OTHER -> TRUE

\* C17: a failing external call leaves no half-written chunk set: when the
\* first ingestion since the store was empty is answered as a failure, the
\* store holds no record (none of that ingestion's chunks was kept).
C17_NoPartialIngestion ==
  \A r \in Requests :
    (started = 1 /\ req[r].pc = "done" /\ ~req[r].resp.success)
      => documentStore = <<>>

C19_LookupOptional ==
  \A r \in Requests :
    (req[r].pc = "done" /\ req[r].route = "enhanced" /\ req[r].resp.status = 400)
      => ~req[r].captions

\* C20: there is no update.  The store changes only by an addDocument call
\* appending the record of its next chunk at the end, whatever ids are
\* stored: the records before stay as they are, in order.  A call goes on
\* to its next chunk after each record and returns only after the record of
\* its last chunk, so a call that returns has made the store grow by the
\* number of its chunks.
C20_AppendOnly ==
  [][ /\ documentStore' # documentStore =>
           \E r \in Requests :
             /\ req[r].pc = "embedding"
             /\ Len(documentStore') = Len(documentStore) + 1
             /\ SubSeq(documentStore', 1, Len(documentStore)) = documentStore
             /\ documentStore'[Len(documentStore')].id = <<req[r].source, req[r].j - 1>>
             /\ documentStore'[Len(documentStore')].content = req[r].chunks[req[r].j]
      /\ \A r \in Requests :
           (req[r].pc = "embedding" /\ req'[r] # req[r]) =>
             \/ /\ Len(documentStore') = Len(documentStore) + 1
                /\ req[r].j < Len(req[r].chunks)
                /\ req'[r] = [req[r] EXCEPT !.j = @ + 1]
             \/ /\ Len(documentStore') = Len(documentStore) + 1
                /\ req[r].j = Len(req[r].chunks)
             \/ /\ documentStore' = documentStore
                /\ \/ req'[r].pc = "done" /\ ~req'[r].resp.success
                   \/ /\ req[r].route = "channel"
                      /\ req[r].batch.result.videosFailed <
                           IF req'[r].pc = "done"
                           THEN req'[r].resp.result.videosFailed
                           ELSE req'[r].batch.result.videosFailed
    ]_vars

\* A source was ingested again: two records of the same id are in the store.
C20_Witness ==
  \E i, k \in 1..Len(documentStore) :
    i < k /\ documentStore[i].id = documentStore[k].id

\* p is the beginning of s.
IsPrefix(p, s) == Len(p) <= Len(s) /\ SubSeq(s, 1, Len(p)) = p

\* The overlap a chunk hands to its successor: the chunk itself when it has
\* no more than `overlap` characters, else its last `overlap` characters
\* from after their last space on, or all of them when they hold no space.
OverlapSuffix(chunk) ==
  IF Len(chunk) <= overlap
  THEN chunk
  ELSE LET window == SubSeq(chunk, Len(chunk) - overlap + 1, Len(chunk))
       IN  IF LastSpace(window) > 0
           THEN SubSeq(window, LastSpace(window) + 1, Len(window))
           ELSE window

\* C21: overlap continuity: each chunk of createSemanticChunks (of the manual
\* route and of the transcript loader) after the first begins with the
\* word-aligned suffix of the chunk before it.
C21_OverlapContinuity ==
  fnName \in {"createSemanticChunks", "loaderCreateSemanticChunks"} =>
    \A i \in 1..(Len(fnChunks) - 1) :
      IsPrefix(OverlapSuffix(fnChunks[i]), fnChunks[i + 1])

\* A request of the channel route: in flight, or just answered with 200.
ChannelInFlight(q) ==
  q.pc \in {"downloading", "transcribing", "whisper", "embedding"} /\ q.route = "channel"
ChannelBatch(q) ==
  q.pc # "idle" /\ q.route = "channel" /\ (q.pc = "done" => q.resp.success)
LedgerOf(q) == IF q.pc = "done" THEN q.ledger ELSE q.batch.ledger
VideosOf(q) == IF q.pc = "done" THEN q.videos ELSE q.batch.videos
SkipExistingOf(q) == IF q.pc = "done" THEN q.skipExisting ELSE q.batch.skipExisting

\* C22: skip-existing.  Whenever a channel batch with skipExisting = true
\* moves on through its list, the videos it passes over as already
\* processed are exactly those that have a record in the store whose source
\* contains their id, nothing is downloaded or inserted for them (the only
\* record a step adds is the one of the video at hand), and the video it
\* then downloads (the AI-transcription path) has no such record.
C22_SkipExisting ==
  [][ \A r \in Requests :
        (req'[r] # req[r] /\ ChannelBatch(req'[r]) /\ SkipExistingOf(req'[r])) =>
          LET old == IF ChannelInFlight(req[r]) THEN Len(req[r].batch.ledger) ELSE 0
              athand == IF ChannelInFlight(req[r]) THEN old + 1 ELSE 0
              ledger == LedgerOf(req'[r])
              videos == VideosOf(req'[r])
          IN  /\ \A k \in (old + 1)..Len(ledger) :
                   IF k = athand
                   THEN ledger[k].how # "skipped"
                   ELSE /\ ledger[k].how = "skipped"
                        /\ existingDocs(documentStore', videos[k]) # <<>>
                        /\ videos[k] \notin uploads'
              /\ (ChannelInFlight(req'[r]) /\ Len(ledger) > old) =>
                   /\ req'[r].pc = "downloading"
                   /\ req'[r].videoId = videos[Len(ledger) + 1]
                   /\ existingDocs(documentStore', req'[r].videoId) = <<>>
              /\ documentStore' # documentStore =>
                   /\ req[r].pc = "embedding"
                   /\ documentStore' =
                        Append(documentStore, documentStore'[Len(documentStore')])
                   /\ documentStore'[Len(documentStore')].metadata.source
                        = watchUrl(videos[athand])
    ]_vars

\* A batch has ended that skipped one video and processed another.
C22_Witness ==
  \E r \in Requests :
    /\ req[r].pc = "done" /\ req[r].route = "channel" /\ req[r].resp.success
    /\ req[r].skipExisting
    /\ \E i, k \in 1..Len(req[r].ledger) :
         req[r].ledger[i].how = "skipped" /\ req[r].ledger[k].how = "processed"

\* C23: every stored chunk carries a chunkIndex, its position in the chunk
\* sequence of its source: no record is stored without one, and a record
\* that addDocument made from the j-th chunk of a text (id `${source}-${j-1}`)
\* has a chunkIndex of at least j - 1.
C23_ChunkIndexIsPosition ==
  \A i \in 1..Len(documentStore) :
    /\ documentStore[i].metadata.chunkIndex # -1
    /\ documentStore[i].metadata.chunkIndex >= documentStore[i].id[2]

\* C26: a clear stops the ingestions in flight.  When an upload ends whose
\* first chunk is not in the store any more (clearDocumentStore ran between
\* two of its embeddings), none of its later chunks is in the store either.
C26_ClearStopsIngestion ==
  \A r \in Requests :
    (req[r].pc = "done" /\ req[r].route = "upload" /\ req[r].resp.success) =>
      LET source == req[r].resp.source
          Stored(k) == \E i \in 1..Len(documentStore) : documentStore[i].id = <<source, k>>
      IN  \A k \in 1..MaxStore : Stored(k) => Stored(0)

\* C28: the admin delete, clear and list routes act only for the admin: a
\* request without a session, or with a session whose email is not
\* ADMIN_EMAIL, is answered 401, is shown no document and leaves the document
\* store as it was.
C28_AdminOnly ==
  [][ ( /\ adminResp'.op \in {"delete", "clear", "list"}
        /\ \/ ~adminResp'.session.signedIn
           \/ adminResp'.session.email # ADMIN_EMAIL )
      => /\ adminResp'.status = 401
         /\ "documents" \notin DOMAIN adminResp'
         /\ documentStore' = documentStore
    ]_vars

\* A signed-in user who is not the admin was refused while records are stored.
C28_Witness ==
  /\ adminResp.op \in {"delete", "clear", "list"}
  /\ adminResp.session.signedIn
  /\ adminResp.session.email # ADMIN_EMAIL
  /\ adminResp.status = 401
  /\ documentStore # <<>>

\* The characters of s that are neither terminators nor white space, in order.
Letters(s) == SelectSeq(s, LAMBDA c : c \notin (Punct \cup WhiteSpace))

\* The letters of the chunks, read chunk after chunk.
RECURSIVE LettersOfAll(_)
LettersOfAll(chunks) ==
  IF chunks = <<>> THEN <<>> ELSE Letters(Head(chunks)) \o LettersOfAll(Tail(chunks))

\* C29: chunkText loses nothing.  Read in order, its chunks hold the letters
\* of the text, all of them, once and in the order of the text (only
\* terminators and white space differ), so every sentence is in one chunk
\* and the sentences come in input order; and no sentence is cut: each
\* chunk is made of whole sentences.
C29_ChunkTextLosesNothing ==
  fnName \in {"chunkText", "chunkTextShort"} =>
    /\ LettersOfAll(fnChunks) = Letters(fnText)
    /\ \A i \in 1..Len(fnChunks) :
         \E a, b \in 1..Len(SplitSentences(fnText)) :
           /\ a <= b
           /\ Letters(fnChunks[i]) =
                LettersOfAll(SubSeq(SplitSentences(fnText), a, b))

\* chunkText (maxLength 1000) has returned two chunks for a text of two
\* sentences.
C29_Witness ==
  /\ fnName = "chunkText"
  /\ Len(fnChunks) = 2
  /\ Len(SemanticSentences(fnText)) = 2

\* The texts a complete ingestion of the video hands to addDocument, call by
\* call, for each route and each outcome of its fetch.
IngestionPlans(videoId) ==
  { <<join(t)>> : t \in VideoTranscripts }
  \cup { <<enhancedContent(d, videoId, join(t))>> : d \in BOOLEAN, t \in VideoTranscripts }
  \cup { loaderCreateSemanticChunks(t) : t \in VideoTranscripts }
  \cup { <<whisperContent(d, videoId, t)>> : d \in BOOLEAN, t \in Transcriptions }
  \cup { <<channelContent(videoId, t)>> : t \in Transcriptions }

\* The store holds every chunk of some complete ingestion of the video.
FullChunkSet(store, videoId) ==
  \E plan \in IngestionPlans(videoId) :
    /\ plan # <<>>
    /\ \A k \in 1..Len(plan) :
         \A j \in 1..Len(chunkText(plan[k], ChunkTextMaxLength)) :
           \E i \in 1..Len(store) :
             /\ includes(store[i].metadata.source, videoId)
             /\ store[i].content = chunkText(plan[k], ChunkTextMaxLength)[j]

\* C27: a channel batch with skipExisting records a video as already
\* processed only if the full chunk set of an earlier ingestion of that
\* video is in the index.
C27_SkipOnlyComplete ==
  \A r \in Requests :
    (req[r].pc = "done" /\ req[r].route = "channel" /\ req[r].resp.success) =>
      \A k \in 1..Len(req[r].ledger) :
        req[r].ledger[k].how = "skipped" =>
          FullChunkSet(documentStore, req[r].videos[k])

\* C30: the chunk count an ingestion reports is the number of records it
\* inserted.  When addDocument returns to the enhanced caption route, the
\* whisper route or the channel batch (the record of its last chunk is
\* pushed), the count in the response, or in the batch entry of the video,
\* is the number of chunks of that call.
C30_ReportedCount ==
  [][ \A r \in Requests :
        ( /\ req[r].pc = "embedding"
          /\ req[r].route \in {"enhanced", "whisper", "channel"}
          /\ req[r].j = Len(req[r].chunks)
          /\ Len(documentStore') = Len(documentStore) + 1 )
        => IF req[r].route = "channel"
           THEN LET result == IF req'[r].pc = "done"
                              THEN req'[r].resp.result
                              ELSE req'[r].batch.result
                IN  result.processedVideos[Len(req[r].batch.ledger) + 1].chunks
                      = Len(req[r].chunks)
           ELSE req'[r].resp.chunks = Len(req[r].chunks)
    ]_vars

\* C24: with ingestions, searches and deletes interleaved, the chunks of one
\* ingestion (an upload: its file uuid is the source of no other ingestion)
\* are in the store in ascending order of their sequence index, and the
\* listing of getDocumentStore() is the store in its insertion order.
C24_InsertionOrder ==
  /\ \A i, k \in 1..Len(documentStore) :
       ( /\ i < k
         /\ documentStore[i].metadata.type = "document"
         /\ documentStore[i].metadata.source = documentStore[k].metadata.source )
       => documentStore[i].id[2] < documentStore[k].id[2]
  /\ (adminResp.op = "list" /\ adminResp.status = 200)
       => adminResp.documents = documentStore

\* Both chunks of an upload are stored while the other request, whose first
\* record was inserted and deleted in between, awaits its second embedding.
C24_Witness ==
  /\ Len(documentStore) = 2
  /\ documentStore[1].metadata.type = "document"
  /\ documentStore[1].metadata.source = documentStore[2].metadata.source
  /\ \E r \in Slots :
       /\ req[r].pc = "embedding"
       /\ req[r].j = 2
       /\ req[r].source # documentStore[1].metadata.source

\* C25: the existence check and the insertion are two steps.  A request of
\* the whisper route or of the channel batch (skipExisting) starts the
\* download of a video only when the store holds no record of it at that
\* moment, and from then on it inserts what it transcribes whatever the
\* store holds by then; so two requests that both checked before either
\* inserted both insert (the state of C25_DoubleInsert).
C25_CheckThenInsert ==
  [][ \A r \in Slots :
        /\ (req'[r] # req[r] /\ req'[r].pc = "downloading") =>
             existingDocs(documentStore', req'[r].videoId) = <<>>
        /\ ( /\ req[r].pc = "embedding"
             /\ req[r].route \in {"whisper", "channel"}
             /\ req'[r] # req[r] ) =>
             \/ /\ documentStore' = documentStore
                /\ req'[r].pc = "done"
                /\ IF req[r].route = "whisper"
                   THEN ~req'[r].resp.success
                   ELSE req'[r].resp.result.videosFailed = 1
             \/ \E e \in Vectors :
                  documentStore' = push(documentStore, DocumentChunk(req[r], e))
    ]_vars

\* Two requests for the same video have both inserted its chunk: the store
\* holds the chunk set of the video twice.
C25_DoubleInsert ==
  /\ Len(documentStore) = 2
  /\ documentStore[1].id = documentStore[2].id
  /\ documentStore[1].content = documentStore[2].content
  /\ documentStore[1].metadata.source = watchUrl("vidA")
  /\ \E r \in Slots : req[r].pc = "done" /\ req[r].resp.success

====
